---- MODULE Spec2Model ----
(***************************************************************************)
(* Cinema ticket ordering: the relational store (cinema halls, movie       *)
(* sessions, orders, tickets) and the request handlers of cinema/views.py  *)
(* and cinema/serializers.py that write to it.                             *)
(*                                                                         *)
(* An order-creation request is handled in several steps, each of which    *)
(* reads or writes the store on its own, so that the steps of concurrent   *)
(* requests interleave:                                                    *)
(*   - TicketCreateSerializer.validate, once per submitted ticket;         *)
(*   - OrderCreateSerializer.validate_tickets, once the list is read;      *)
(*   - OrderCreateSerializer.create, one atomic transaction.               *)
(***************************************************************************)
EXTENDS Integers, Sequences, FiniteSets, TLC

\* ---------------------------------------------------------------- bounds
MaxRows == 2        \* a hall has 1..MaxRows rows
MaxSeats == 1       \* a hall has 1..MaxSeats seats in a row
MaxHalls == 2       \* cinema halls ever created
MaxSessions == 2    \* movie sessions ever created
MaxTickets == 2     \* tickets submitted in one order request
MaxOrders == 2      \* order requests ever started

\* The authenticated users; each sends one order request at a time.
Users == {"alice", "bob"}

VARIABLES
    halls,        \* CinemaHall table: id (the index) -> [rows, seats_in_row]
    sessions,     \* MovieSession table: id (the index) -> [cinema_hall]
    orders,       \* Order table: set of [id, user]
    tickets,      \* Ticket table: set of [id, order, movie_session, row, seat]
    nextOrderId,  \* Order primary-key sequence
    nextTicketId, \* Ticket primary-key sequence
    started,      \* order requests started so far
    pc,           \* per user: where the user's order request stands
    attrs,        \* per user: the validated tickets of the request in progress
    response      \* per user: the answer to the user's last order request

vars == <<halls, sessions, orders, tickets, nextOrderId, nextTicketId,
          started, pc, attrs, response>>

store == <<halls, sessions, orders, tickets, nextOrderId, nextTicketId>>

\* ------------------------------------------------------------ the tables
HallIds == 1..Len(halls)

SessionIds == 1..Len(sessions)

CinemaHall == [rows : 1..MaxRows, seats_in_row : 1..MaxSeats]

\* A submitted ticket: any integers for row and seat, an existing session.
TicketInput ==
    [movie_session : SessionIds, row : 0..(MaxRows + 1), seat : 0..(MaxSeats + 1)]

\* The (movie_session, row, seat) triple of a ticket or of a submitted ticket.
Place(t) == <<t.movie_session, t.row, t.seat>>

cinema_hall(ms) == halls[sessions[ms].cinema_hall]

\* ------------------------------------------------- availability (views)
tickets_sold(ms) == Cardinality({t \in tickets : t.movie_session = ms})

hall_capacity(ms) == cinema_hall(ms).rows * cinema_hall(ms).seats_in_row

tickets_available(ms) == hall_capacity(ms) - tickets_sold(ms)

\* ------------------------------------- TicketCreateSerializer.validate
\* Mutant: rows counted from 0.
RowOutOfRangeZeroBased(row, hall) == row < 0 \/ row >= hall.rows

RowOutOfRange(row, hall) == row < 1 \/ row > hall.rows

SeatOutOfRange(seat, hall) == seat < 1 \/ seat > hall.seats_in_row

\* Mutant: row and seat swapped in the filter.
is_takenSwapped(item) ==
    \E t \in tickets :
        t.movie_session = item.movie_session /\ t.row = item.seat /\ t.seat = item.row

\* Ticket.objects.filter(movie_session=..., row=..., seat=...).exists()
is_taken(item) == \E t \in tickets : Place(t) = Place(item)

\* The error TicketCreateSerializer.validate raises for item, or "ok".
validate(item) ==
    IF RowOutOfRange(item.row, cinema_hall(item.movie_session))
    THEN "row_out_of_range"
    ELSE IF SeatOutOfRange(item.seat, cinema_hall(item.movie_session))
    THEN "seat_out_of_range"
    ELSE IF is_taken(item)
    THEN "place_taken"
    ELSE "ok"

\* ------------------------------ OrderCreateSerializer.validate_tickets
\* Mutant: the key leaves the session out.
keyWithoutSession(item) == <<item.row, item.seat>>

key(item) == <<item.movie_session, item.row, item.seat>>

\* The loop over the items with the set `seen` of the keys before each.
validate_tickets(items) ==
    IF \E i \in 1..Len(items) : key(items[i]) \in {key(items[j]) : j \in 1..(i - 1)}
    THEN "duplicate_tickets"
    ELSE "ok"

\* --------------------------------------- OrderCreateSerializer.create
\* Order.objects.create(user=user)
new_order(user) == [id |-> nextOrderId, user |-> user]

\* Mutant: the loop stops one item short.
tickets_to_createSkipLast(order, items) ==
    {[id |-> nextTicketId + i - 1, order |-> order.id,
      movie_session |-> items[i].movie_session,
      row |-> items[i].row, seat |-> items[i].seat] : i \in 1..(Len(items) - 1)}

\* One Ticket(order=order, **ticket) per item, inserted by bulk_create.
tickets_to_create(order, items) ==
    {[id |-> nextTicketId + i - 1, order |-> order.id,
      movie_session |-> items[i].movie_session,
      row |-> items[i].row, seat |-> items[i].seat] : i \in 1..Len(items)}

\* Mutant: no transaction, the Order row stays when bulk_create fails.
orders_after_createNotAtomic(user, inserted) == orders \cup {new_order(user)}

\* The constraints of the Ticket table on inserted rows, beyond referential
\* integrity: none; (movie_session, row, seat) is not unique in the store.
ticket_constraints_hold(new_tickets) == TRUE

\* @transaction.atomic: the Order row is kept only if bulk_create succeeded.
orders_after_create(user, inserted) ==
    IF inserted THEN orders \cup {new_order(user)} ELSE orders

tickets_after_create(user, items, inserted) ==
    IF inserted THEN tickets \cup tickets_to_create(new_order(user), items) ELSE tickets

\* ----------------------------------------------------------- the state
Init ==
    /\ halls = <<>>
    /\ sessions = <<>>
    /\ orders = {}
    /\ tickets = {}
    /\ nextOrderId = 1
    /\ nextTicketId = 1
    /\ started = 0
    /\ pc = [u \in Users |-> "idle"]
    /\ attrs = [u \in Users |-> <<>>]
    /\ response = [u \in Users |-> "none"]

\* ------------------------------------------- CinemaHallViewSet (CRUD)
CinemaHallCreate(hall) ==
    /\ Len(halls) < MaxHalls
    /\ halls' = Append(halls, hall)
    /\ UNCHANGED <<sessions, orders, tickets, nextOrderId, nextTicketId,
                   started, pc, attrs, response>>

\* PUT/PATCH: rows and seats_in_row are writable fields of the serializer.
CinemaHallUpdate(id, hall) ==
    /\ id \in HallIds
    /\ halls[id] # hall
    /\ halls' = [halls EXCEPT ![id] = hall]
    /\ UNCHANGED <<sessions, orders, tickets, nextOrderId, nextTicketId,
                   started, pc, attrs, response>>

\* ----------------------------------------- MovieSessionViewSet (CRUD)
MovieSessionCreate(hall_id) ==
    /\ Len(sessions) < MaxSessions
    /\ hall_id \in HallIds
    /\ sessions' = Append(sessions, [cinema_hall |-> hall_id])
    /\ UNCHANGED <<halls, orders, tickets, nextOrderId, nextTicketId,
                   started, pc, attrs, response>>

\* PUT/PATCH with MovieSessionWriteSerializer: cinema_hall is writable.
MovieSessionUpdate(id, hall_id) ==
    /\ id \in SessionIds
    /\ hall_id \in HallIds
    /\ sessions[id].cinema_hall # hall_id
    /\ sessions' = [sessions EXCEPT ![id] = [cinema_hall |-> hall_id]]
    /\ UNCHANGED <<halls, orders, tickets, nextOrderId, nextTicketId,
                   started, pc, attrs, response>>

\* ------------------------------------------------ OrderViewSet: create
\* POST /orders/ arrives: the serializer starts reading the ticket list.
OrderRequest(user) ==
    /\ pc[user] = "idle"
    /\ started < MaxOrders
    /\ started' = started + 1
    /\ pc' = [pc EXCEPT ![user] = "validate"]
    /\ attrs' = [attrs EXCEPT ![user] = <<>>]
    /\ response' = [response EXCEPT ![user] = "none"]
    /\ UNCHANGED store

\* The next submitted ticket goes through TicketCreateSerializer.validate;
\* an error ends the request (400) and its validated data is dropped.
TicketValidate(user, item) ==
    /\ pc[user] = "validate"
    /\ Len(attrs[user]) < MaxTickets
    /\ item \in TicketInput
    /\ IF validate(item) = "ok"
       THEN /\ attrs' = [attrs EXCEPT ![user] = Append(@, item)]
            /\ UNCHANGED <<pc, response>>
       ELSE /\ attrs' = [attrs EXCEPT ![user] = <<>>]
            /\ pc' = [pc EXCEPT ![user] = "idle"]
            /\ response' = [response EXCEPT ![user] = validate(item)]
    /\ UNCHANGED <<store, started>>

\* The list is read: validate_tickets runs on the validated items; an
\* error ends the request (400).
OrderValidateTickets(user) ==
    /\ pc[user] = "validate"
    /\ IF validate_tickets(attrs[user]) = "ok"
       THEN /\ pc' = [pc EXCEPT ![user] = "create"]
            /\ UNCHANGED <<response, attrs>>
       ELSE /\ pc' = [pc EXCEPT ![user] = "idle"]
            /\ attrs' = [attrs EXCEPT ![user] = <<>>]
            /\ response' = [response EXCEPT ![user] = validate_tickets(attrs[user])]
    /\ UNCHANGED <<store, started>>

\* serializer.save(): create() in one transaction; `inserted` is whether
\* the database carried out the inserts (FALSE: it raised, and the
\* transaction is rolled back).
OrderCreate(user, inserted) ==
    /\ pc[user] = "create"
    /\ inserted => ticket_constraints_hold(tickets_to_create(new_order(user), attrs[user]))
    /\ orders' = orders_after_create(user, inserted)
    /\ tickets' = tickets_after_create(user, attrs[user], inserted)
    /\ nextOrderId' = IF inserted THEN nextOrderId + 1 ELSE nextOrderId
    /\ nextTicketId' = IF inserted THEN nextTicketId + Len(attrs[user]) ELSE nextTicketId
    /\ pc' = [pc EXCEPT ![user] = "idle"]
    /\ response' = [response EXCEPT ![user] =
                        IF inserted THEN "created" ELSE "insert_failed"]
    /\ attrs' = [attrs EXCEPT ![user] = <<>>]
    /\ UNCHANGED <<halls, sessions, started>>

\* ----------------------------------------------- OrderViewSet: destroy
\* The tickets of a deleted order go with it.
tickets_after_destroy(order) == {t \in tickets : t.order # order.id}

\* DELETE /orders/<id>/ on an order of the requesting user (get_queryset).
OrderDestroy(user, order) ==
    /\ order \in orders
    /\ order.user = user
    /\ orders' = orders \ {order}
    /\ tickets' = tickets_after_destroy(order)
    /\ UNCHANGED <<halls, sessions, nextOrderId, nextTicketId,
                   started, pc, attrs, response>>

Next ==
    \/ \E hall \in CinemaHall : CinemaHallCreate(hall)
    \/ \E id \in HallIds, hall \in CinemaHall : CinemaHallUpdate(id, hall)
    \/ \E hall_id \in HallIds : MovieSessionCreate(hall_id)
    \/ \E id \in SessionIds, hall_id \in HallIds : MovieSessionUpdate(id, hall_id)
    \/ \E user \in Users : OrderRequest(user)
    \/ \E user \in Users, item \in TicketInput : TicketValidate(user, item)
    \/ \E user \in Users : OrderValidateTickets(user)
    \/ \E user \in Users, inserted \in BOOLEAN : OrderCreate(user, inserted)
    \/ \E user \in Users, order \in orders : OrderDestroy(user, order)

Spec == Init /\ [][Next]_vars

\* =========================================================== properties
ValidationErrors ==
    {"row_out_of_range", "seat_out_of_range", "place_taken", "duplicate_tickets"}

\* The step in which validate_tickets runs on user's list.
ValidateTicketsStep(user) ==
    pc[user] = "validate" /\ pc'[user] # "validate" /\ OrderValidateTickets(user)

\* The step in which OrderCreateSerializer.create runs for user.
CreateStep(user) == pc[user] = "create" /\ pc'[user] # "create"

\* The request of user ends with one of the errors, nothing stored.
RejectedWith(user, errors) ==
    /\ pc'[user] = "idle"
    /\ response'[user] \in errors
    /\ orders' = orders
    /\ tickets' = tickets

HasRepeatedPlace(items) ==
    \E i, j \in 1..Len(items) : i # j /\ Place(items[i]) = Place(items[j])

\* C1: no reachable state holds two tickets with the same
\* (movie_session, row, seat), whatever the interleaving of the validation
\* and commit steps of concurrent order requests.
C1_NoDoubleBooking ==
    \A t1, t2 \in tickets : Place(t1) = Place(t2) => t1 = t2

\* C2: order creation is all-or-nothing: the create step either stores one
\* new Order together with every submitted ticket, or (the insert failed)
\* leaves orders and tickets as they were; a request rejected in validation
\* leaves them as they were too.
C2_AllOrNothing ==
    [][\A user \in Users :
          /\ CreateStep(user) =>
                \/ /\ response'[user] = "created"
                   /\ orders \subseteq orders'
                   /\ Cardinality(orders' \ orders) = 1
                   /\ tickets \subseteq tickets'
                   /\ Cardinality(tickets' \ tickets) = Len(attrs[user])
                   /\ \A t \in tickets' \ tickets :
                         \E o \in orders' \ orders : t.order = o.id
                \/ /\ response'[user] = "insert_failed"
                   /\ orders' = orders
                   /\ tickets' = tickets
          /\ (pc[user] = "validate" /\ pc'[user] = "idle") =>
                orders' = orders /\ tickets' = tickets]_vars

C2_Witness ==
    \E u, v \in Users :
        /\ pc[u] = "idle" /\ response[u] = "insert_failed"
        /\ pc[v] = "idle" /\ response[v] = "created"
        /\ Cardinality(orders) = 1 /\ Cardinality(tickets) = 2

\* C3: a request submitting a place for which a ticket exists when the
\* place is validated is rejected with a validation error and stores nothing.
C3_TakenPlaceRejected ==
    [][\A user \in Users, item \in TicketInput :
          (TicketValidate(user, item) /\ \E t \in tickets : Place(t) = Place(item))
          => RejectedWith(user, ValidationErrors)]_vars

C3_Witness ==
    \E user \in Users :
        /\ pc[user] = "idle" /\ response[user] = "place_taken"
        /\ tickets # {}

\* C4: a list in which a (movie_session, row, seat) triple repeats is
\* rejected by validate_tickets and never reaches create; a list without a
\* repeated triple, equal (row, seat) in different sessions included, passes
\* validate_tickets.
C4_DuplicatesRejected ==
    [][\A user \in Users :
          /\ ValidateTicketsStep(user) =>
                IF HasRepeatedPlace(attrs[user])
                THEN RejectedWith(user, {"duplicate_tickets"})
                ELSE pc'[user] = "create" /\ response'[user] = "none"
          /\ pc'[user] = "create" => ~HasRepeatedPlace(attrs'[user])]_vars

C4_Witness ==
    \E u, v \in Users :
        /\ pc[u] = "idle" /\ response[u] = "duplicate_tickets"
        /\ pc[v] = "create" /\ Len(attrs[v]) = 2
        /\ attrs[v][1].row = attrs[v][2].row
        /\ attrs[v][1].seat = attrs[v][2].seat
        /\ attrs[v][1].movie_session # attrs[v][2].movie_session

\* C5: a ticket whose row or seat lies outside 1..hall.rows, 1..hall.seats_in_row
\* of its session's hall at validation time is rejected with a validation
\* error and nothing is stored; a ticket on the bounds is not rejected as out
\* of range.
C5_OutOfRangeRejected ==
    [][\A user \in Users, item \in TicketInput :
          TicketValidate(user, item) =>
             LET hall == cinema_hall(item.movie_session)
             IN /\ (\/ item.row < 1 \/ item.row > hall.rows
                    \/ item.seat < 1 \/ item.seat > hall.seats_in_row)
                      => RejectedWith(user, {"row_out_of_range", "seat_out_of_range"})
                /\ (item.row \in {1, hall.rows} /\ item.seat \in {1, hall.seats_in_row})
                      => response'[user] \notin {"row_out_of_range", "seat_out_of_range"}]_vars

C5_Witness ==
    \E u, v \in Users :
        /\ pc[u] = "idle" /\ response[u] = "row_out_of_range"
        /\ pc[v] = "create" /\ Len(attrs[v]) = 1
        /\ attrs[v][1].row = 2
        /\ attrs[v][1].row = cinema_hall(attrs[v][1].movie_session).rows

\* C6: a successful creation adds exactly one new Order, of the requesting
\* user, and exactly one new Ticket per submitted triple, each of the new
\* Order; what was stored before stays as it was.
C6_CreateAddsOrderAndTickets ==
    [][\A user \in Users :
          (CreateStep(user) /\ response'[user] = "created") =>
             \E o \in orders' :
                /\ o \notin orders
                /\ o.id \notin {x.id : x \in orders}
                /\ o.user = user
                /\ orders' = orders \cup {o}
                /\ tickets \subseteq tickets'
                /\ Cardinality(tickets' \ tickets) = Len(attrs[user])
                /\ Cardinality({t \in tickets' : t.order = o.id}) = Len(attrs[user])
                /\ \A t \in tickets' \ tickets :
                      /\ t.order = o.id
                      /\ t.id \notin {x.id : x \in tickets}
                      /\ \E i \in 1..Len(attrs[user]) : Place(t) = Place(attrs[user][i])
                /\ \A i \in 1..Len(attrs[user]) :
                      \E t \in tickets' \ tickets : Place(t) = Place(attrs[user][i])]_vars

C6_Witness ==
    \E user \in Users, o \in orders :
        /\ pc[user] = "idle" /\ response[user] = "created"
        /\ o.user = user
        /\ Cardinality({t \in tickets : t.order = o.id}) = 2
        /\ Cardinality(orders) = 2

\* C7: for every movie session tickets_available is the capacity of the
\* session's current hall minus the tickets stored for it, and is never
\* negative.
C7_AvailabilityNeverNegative ==
    \A ms \in SessionIds :
        /\ tickets_available(ms) =
              cinema_hall(ms).rows * cinema_hall(ms).seats_in_row
                 - Cardinality({t \in tickets : t.movie_session = ms})
        /\ tickets_available(ms) >= 0

\* C8: every stored ticket lies within the current hall of its session:
\* 1 <= row <= hall.rows and 1 <= seat <= hall.seats_in_row.
C8_TicketsWithinHall ==
    \A t \in tickets :
        /\ 1 <= t.row /\ t.row <= cinema_hall(t.movie_session).rows
        /\ 1 <= t.seat /\ t.seat <= cinema_hall(t.movie_session).seats_in_row

\* C9: orders and tickets are immutable once created: no step changes or
\* removes a stored order or ticket, the stored sets only grow.
C9_OrdersAndTicketsOnlyGrow ==
    [][orders \subseteq orders' /\ tickets \subseteq tickets']_vars

\* C10: every stored Order owns at least one Ticket.
C10_OrderHasTicket ==
    \A o \in orders : \E t \in tickets : t.order = o.id

====
